---------------------------- MODULE Spec2Model ----------------------------
(***************************************************************************)
(* The code execution relay of python_mcp_server.py: execute_python_code   *)
(* writes the source to a temporary directory, POSTs it to the sandbox,    *)
(* and translates the sandbox's answer into the mapping it returns,        *)
(* writing every returned .png into Config.TEMP_DIR.                       *)
(*                                                                         *)
(* Text (stdout, paths, base64 content) is a sequence of one-character     *)
(* strings, bytes are a sequence of numbers 0..255, a Python dict is a     *)
(* function from its keys, and the clock is the second strftime prints.    *)
(* Calls are the tool invocations in flight; TEMP_DIR is shared by all of  *)
(* them (and by every server process started from the same checkout).      *)
(***************************************************************************)
EXTENDS Integers, Sequences, FiniteSets, TLC

(* ------------------------------ bounds -------------------------------- *)
NumCalls == 2
MaxClock == 1
MaxFiles == 2
MaxFilesConcurrent == 1

Calls == 1..NumCalls

(* ------------------------- text and base64 ---------------------------- *)
Whitespace == {" ", "\t", "\n", "\r"}

RECURSIVE LStrip(_)
LStrip(s) ==
  IF s # <<>> /\ Head(s) \in Whitespace THEN LStrip(Tail(s)) ELSE s

RECURSIVE RStrip(_)
RStrip(s) ==
  IF s # <<>> /\ s[Len(s)] \in Whitespace
  THEN RStrip(SubSeq(s, 1, Len(s) - 1))
  ELSE s

\* str.strip()
Strip(s) == RStrip(LStrip(s))

\* str.endswith(suffix)
EndsWith(s, suffix) ==
  /\ Len(s) >= Len(suffix)
  /\ SubSeq(s, Len(s) - Len(suffix) + 1, Len(s)) = suffix

PngSuffix == <<".", "p", "n", "g">>

Base64Alphabet ==
  << "A","B","C","D","E","F","G","H","I","J","K","L","M","N","O","P",
     "Q","R","S","T","U","V","W","X","Y","Z","a","b","c","d","e","f",
     "g","h","i","j","k","l","m","n","o","p","q","r","s","t","u","v",
     "w","x","y","z","0","1","2","3","4","5","6","7","8","9","+","/" >>

IsBase64Char(ch) == \E k \in 1..Len(Base64Alphabet) : Base64Alphabet[k] = ch

Base64Value(ch) == (CHOOSE k \in 1..Len(Base64Alphabet) : Base64Alphabet[k] = ch) - 1

\* binascii.a2b_base64 as base64.b64decode(s) calls it (validate=False):
\* characters outside the alphabet are skipped, a completed pad sequence ends
\* the input, and data left in an unfinished quad is an error.
RECURSIVE A2bBase64(_, _, _, _, _, _)
A2bBase64(s, i, quad_pos, leftchar, pads, out) ==
  IF i > Len(s)
  THEN IF quad_pos # 0
       THEN [ok |-> FALSE, bytes |-> <<>>]
       ELSE [ok |-> TRUE, bytes |-> out]
  ELSE IF s[i] = "="
  THEN IF quad_pos >= 2 /\ quad_pos + pads + 1 >= 4
       THEN [ok |-> TRUE, bytes |-> out]
       ELSE A2bBase64(s, i + 1, quad_pos, leftchar,
                      IF quad_pos >= 2 THEN pads + 1 ELSE pads, out)
  ELSE IF ~IsBase64Char(s[i])
  THEN A2bBase64(s, i + 1, quad_pos, leftchar, pads, out)
  ELSE LET this_ch == Base64Value(s[i]) IN
       CASE quad_pos = 0 ->
              A2bBase64(s, i + 1, 1, this_ch, 0, out)
         [] quad_pos = 1 ->
              A2bBase64(s, i + 1, 2, this_ch % 16, 0,
                        Append(out, (leftchar * 4 + this_ch \div 16) % 256))
         [] quad_pos = 2 ->
              A2bBase64(s, i + 1, 3, this_ch % 4, 0,
                        Append(out, (leftchar * 16 + this_ch \div 4) % 256))
         [] OTHER ->
              A2bBase64(s, i + 1, 0, 0, 0,
                        Append(out, (leftchar * 64 + this_ch) % 256))

B64Decode(s) == A2bBase64(s, 1, 0, 0, 0, <<>>)

(* ----------------------------- dicts ---------------------------------- *)
EmptyDict == [k \in {} |-> ""]

\* dict.update(other)
Update(d, other) == other @@ d

\* dict.get(key, default)
Get(d, key, default) == IF key \in DOMAIN d THEN d[key] ELSE default

(* ------------------------ get_unique_filename ------------------------- *)
PythonCodes == {"print(1)", "plt.savefig('a.png')"}

\* hashlib.md5(content.encode()).hexdigest()[:8]
Md5Prefix(content) ==
  CASE content = "" -> "d41d8cd9"
    [] content = "print(1)" -> "186bdbe4"
    [] content = "plt.savefig('a.png')" -> "8f4d6b86"

\* f"{prefix}{content_hash}_{timestamp}{suffix}", the timestamp being the
\* clock's second
get_unique_filename(content, prefix, suffix, clock) ==
  <<prefix, Md5Prefix(content), clock, suffix>>

(* ----------------------- the sandbox's answers ------------------------ *)
\* File entries of a sandbox answer: {"path": ..., "content": <base64>}.
PngA        == [path |-> <<"a", ".", "p", "n", "g">>, content |-> <<"Q", "Q", "=", "=">>]
PngB        == [path |-> <<"b", ".", "p", "n", "g">>, content |-> <<"Q", "k", "M", "=">>]
PngBadB64   == [path |-> <<"c", ".", "p", "n", "g">>, content |-> <<"Q", "Q", "=">>]
PngNoContent == [path |-> <<"d", ".", "p", "n", "g">>]
NoPath      == [content |-> <<"Q", "Q", "=", "=">>]
TxtFile     == [path |-> <<"o", ".", "t", "x", "t">>, content |-> <<"a", "G", "k", "=">>]

FileEntries == {PngA, PngB, PngBadB64, PngNoContent, NoPath, TxtFile}

FileLists(n) == UNION {[1..k -> FileEntries] : k \in 0..n}

ReturncodeValues == {0, 7}
StdoutValues == {<<" ">>, <<" ", "o", "k", "\n">>}

\* The answers that carry the three keys.
FullResponses(n) ==
  { [returncode |-> rc, stdout |-> so, files |-> fl] :
      rc \in ReturncodeValues, so \in StdoutValues, fl \in FileLists(n) }

\* Every key of an answer is optional: one answer with each subset of its
\* keys left out, down to the empty object.
SampleResponse ==
  [returncode |-> 7, stdout |-> <<" ", "o", "k", "\n">>, files |-> <<PngA>>]

Restrict(d, keys) == [k \in keys |-> d[k]]

\* The parsed JSON bodies the sandbox may answer with.
SandboxResponses(n) ==
  FullResponses(n) \cup
  {Restrict(SampleResponse, keys) : keys \in SUBSET DOMAIN SampleResponse}

\* The answers of a call that runs alone, and of calls that interleave.
Responses == SandboxResponses(MaxFiles)
ResponsesConcurrent == SandboxResponses(MaxFilesConcurrent)

(* ---------------------------- exceptions ------------------------------ *)
Exc(type, message) == [type |-> type, message |-> message]

NoException == Exc("", "")
MakedirsError == Exc("OSError", "[Errno 13] Permission denied")
SourceWriteError == Exc("OSError", "[Errno 28] No space left on device")
ConnectionError == Exc("URLError", "<urlopen error [Errno 111] Connection refused>")
JsonError == Exc("JSONDecodeError", "Expecting value: line 1 column 1 (char 0)")
PathKeyError == Exc("KeyError", "'path'")
ContentKeyError == Exc("KeyError", "'content'")
PaddingError == Exc("Error", "Incorrect padding")
PlotWriteError == Exc("OSError", "[Errno 5] Input/output error")

\* The classes `except Exception` catches, among those the pipeline raises.
ExceptionClasses == {"OSError", "URLError", "JSONDecodeError", "KeyError", "Error"}

(* -------------------------- result mappings --------------------------- *)
InitialResponse(returncode) ==
  [status |-> IF returncode = 0 THEN "success" ELSE "error", returncode |-> returncode]

ExecutionErrorFields(stdout) ==
  [error_type |-> "execution_error",
   error_message |-> stdout,
   details |-> "Code execution encountered syntax error or runtime error"]

TextFields(stdout) ==
  [output_type |-> "text",
   stdout |-> stdout,
   details |-> "Code executed successfully and produced text output"]

PlotFields(content, path) ==
  [output_type |-> "plot",
   plot_data |-> content,
   plot_path |-> path,
   details |-> "Code executed successfully and generated a plot"]

NoneFields ==
  [output_type |-> "none",
   details |-> "Code executed successfully but produced no output"]

SystemError(e) ==
  [status |-> "error",
   error_type |-> "system_error",
   error_message |-> e.message,
   details |-> "System exception occurred during execution"]

(* ------------------------------ state --------------------------------- *)
VARIABLES
  now,          \* the clock, in seconds (datetime.now() at strftime's grain)
  made,         \* whether Config.TEMP_DIR exists
  temp,         \* Config.TEMP_DIR: file name -> the bytes stored in it
  pc,           \* where each call stands
  python_code,  \* each call's argument
  tmpdir,       \* the files of each call's TemporaryDirectory
  posts,        \* the HTTP POSTs each call has issued
  post,         \* each call's request: unsent, inflight, answered, failed
  result,       \* the parsed JSON answer
  idx,          \* the position of `for file in files` (1-based)
  output_path,  \* the plot file the call holds open
  response,     \* the mapping the call accumulates
  returned,     \* the mapping the call returned
  raised,       \* the exception the call raised, NoException if none
  writes,       \* the plot files the call has opened for writing, in order
  returns       \* the return statements the call has executed

vars == <<now, made, temp, pc, python_code, tmpdir, posts, post, result, idx,
          output_path, response, returned, raised, writes, returns>>

Returncode(i) == Get(result[i], "returncode", 0)
Stdout(i) == Strip(Get(result[i], "stdout", <<>>))
Files(i) == Get(result[i], "files", <<>>)

Init ==
  /\ now = 0
  /\ made = FALSE
  /\ temp = EmptyDict
  /\ pc = [i \in Calls |-> "idle"]
  /\ python_code = [i \in Calls |-> ""]
  /\ tmpdir = [i \in Calls |-> {}]
  /\ posts = [i \in Calls |-> 0]
  /\ post = [i \in Calls |-> "unsent"]
  /\ result = [i \in Calls |-> EmptyDict]
  /\ idx = [i \in Calls |-> 0]
  /\ output_path = [i \in Calls |-> <<>>]
  /\ response = [i \in Calls |-> EmptyDict]
  /\ returned = [i \in Calls |-> EmptyDict]
  /\ raised = [i \in Calls |-> NoException]
  /\ writes = [i \in Calls |-> <<>>]
  /\ returns = [i \in Calls |-> 0]

(* ----------------------- control flow of a call ----------------------- *)
\* `except Exception as e`
Catches(e) == e.type \in ExceptionClasses

HandlerKeepsPartial(partial, e) == Update(partial, SystemError(e))

\* The handler's return value; the mapping accumulated so far is dropped.
Handler(partial, e) == SystemError(e)

\* An exception leaves the `with` block (the temporary directory is removed)
\* and reaches the handler.
Raise(i, e) ==
  /\ raised' = [raised EXCEPT ![i] = e]
  /\ tmpdir' = [tmpdir EXCEPT ![i] = {}]
  /\ IF Catches(e)
     THEN /\ pc' = [pc EXCEPT ![i] = "done"]
          /\ returned' = [returned EXCEPT ![i] = Handler(response[i], e)]
          /\ returns' = [returns EXCEPT ![i] = @ + 1]
     ELSE /\ pc' = [pc EXCEPT ![i] = "escaped"]
          /\ UNCHANGED <<returned, returns>>

\* `return response` inside the `with` block.
Return(i, value) ==
  /\ pc' = [pc EXCEPT ![i] = "done"]
  /\ returned' = [returned EXCEPT ![i] = value]
  /\ returns' = [returns EXCEPT ![i] = @ + 1]
  /\ tmpdir' = [tmpdir EXCEPT ![i] = {}]
  /\ UNCHANGED raised

\* A call takes the lowest free slot.
FreeSlot(i) == pc[i] = "idle" /\ \A j \in Calls : j < i => pc[j] # "idle"

NeverReturnsEarly(returncode) == FALSE

\* `if returncode != 0:`
ReturnsEarly(returncode) == returncode # 0

IsNoOutputIgnoringFiles(stdout, files) == stdout = <<>>

\* `if not stdout and not files:`
IsNoOutput(stdout, files) == stdout = <<>> /\ files = <<>>

NextFileIndexFirstMatch(i, n, matched) == IF matched THEN n + 1 ELSE i + 1

\* `for file in files:` goes on to the next entry, a match or not.
NextFileIndex(i, n, matched) == i + 1

(* ------------------------------ actions ------------------------------- *)
\* Lines 63-82: the working directory, the temporary directory, the source
\* file and the payload.
Begin(i, code) ==
  /\ FreeSlot(i)
  /\ made' = TRUE
  /\ python_code' = [python_code EXCEPT ![i] = code]
  /\ tmpdir' = [tmpdir EXCEPT ![i] = {get_unique_filename(code, "", ".py", now)}]
  /\ pc' = [pc EXCEPT ![i] = "ready"]
  /\ UNCHANGED <<now, temp, posts, post, result, idx, output_path, response,
                 returned, raised, writes, returns>>

\* os.makedirs fails.
MakedirsFail(i, code) ==
  /\ FreeSlot(i)
  /\ ~made
  /\ python_code' = [python_code EXCEPT ![i] = code]
  /\ Raise(i, MakedirsError)
  /\ UNCHANGED <<now, made, temp, posts, post, result, idx, output_path,
                 response, writes>>

\* Writing the source file fails.
WriteSourceFail(i, code) ==
  /\ FreeSlot(i)
  /\ made' = TRUE
  /\ python_code' = [python_code EXCEPT ![i] = code]
  /\ Raise(i, SourceWriteError)
  /\ UNCHANGED <<now, temp, posts, post, result, idx, output_path, response,
                 writes>>

\* urllib.request.urlopen(req, json_data) sends the request.
Post(i) ==
  /\ pc[i] = "ready"
  /\ pc' = [pc EXCEPT ![i] = "posted"]
  /\ posts' = [posts EXCEPT ![i] = @ + 1]
  /\ post' = [post EXCEPT ![i] = "inflight"]
  /\ UNCHANGED <<now, made, temp, python_code, tmpdir, result, idx,
                 output_path, response, returned, raised, writes, returns>>

PostFailRetries(i) ==
  /\ pc[i] = "posted"
  /\ posts[i] < 3
  /\ posts' = [posts EXCEPT ![i] = @ + 1]
  /\ UNCHANGED <<now, made, temp, pc, python_code, tmpdir, post, result, idx,
                 output_path, response, returned, raised, writes, returns>>

\* The request fails (connection refused, transport error).
PostFail(i) ==
  /\ pc[i] = "posted"
  /\ post' = [post EXCEPT ![i] = "failed"]
  /\ Raise(i, ConnectionError)
  /\ UNCHANGED <<now, made, temp, python_code, posts, result, idx,
                 output_path, response, writes>>

\* The answer's body is not JSON.
ParseFail(i) ==
  /\ pc[i] = "posted"
  /\ post' = [post EXCEPT ![i] = "answered"]
  /\ Raise(i, JsonError)
  /\ UNCHANGED <<now, made, temp, python_code, posts, result, idx,
                 output_path, response, writes>>

\* Lines 89-117: the answer r is parsed; the execution error returns at once,
\* otherwise the text branch runs and the loop over files starts.
Answer(i, r) ==
  /\ post' = [post EXCEPT ![i] = "answered"]
  /\ result' = [result EXCEPT ![i] = r]
  /\ LET returncode == Get(r, "returncode", 0)
         stdout == Strip(Get(r, "stdout", <<>>))
         initial == InitialResponse(returncode)
     IN IF ReturnsEarly(returncode)
        THEN LET error == Update(initial, ExecutionErrorFields(stdout)) IN
             /\ response' = [response EXCEPT ![i] = error]
             /\ Return(i, error)
             /\ UNCHANGED idx
        ELSE /\ response' = [response EXCEPT ![i] =
                               IF stdout # <<>>
                               THEN Update(initial, TextFields(stdout))
                               ELSE initial]
             /\ pc' = [pc EXCEPT ![i] = "loop"]
             /\ idx' = [idx EXCEPT ![i] = 1]
             /\ UNCHANGED <<tmpdir, returned, raised, returns>>
  /\ UNCHANGED <<now, made, temp, python_code, posts, output_path, writes>>

\* The sandbox answers the request in flight with one of `responses`.
Respond(i, responses) ==
  /\ pc[i] = "posted"
  /\ \E r \in responses : Answer(i, r)

\* A file opened "wb" was truncated at open(); the bytes written through
\* that descriptor land at offset 0, over whatever the file holds by then.
WriteAtStart(old, bytes) == bytes \o SubSeq(old, Len(bytes) + 1, Len(old))

InLoop(i) == pc[i] = "loop" /\ idx[i] <= Len(Files(i))

\* file["path"] of an entry without that key.
ScanNoPath(i) ==
  /\ InLoop(i)
  /\ "path" \notin DOMAIN Files(i)[idx[i]]
  /\ Raise(i, PathKeyError)
  /\ UNCHANGED <<now, made, temp, python_code, posts, post, result, idx,
                 output_path, response, writes>>

\* An entry whose path does not end in .png is passed over.
ScanSkip(i) ==
  /\ InLoop(i)
  /\ "path" \in DOMAIN Files(i)[idx[i]]
  /\ ~EndsWith(Files(i)[idx[i]].path, PngSuffix)
  /\ idx' = [idx EXCEPT ![i] = NextFileIndex(@, Len(Files(i)), FALSE)]
  /\ UNCHANGED <<now, made, temp, pc, python_code, tmpdir, posts, post, result,
                 output_path, response, returned, raised, writes, returns>>

\* Lines 121-125: a .png entry; the plot file is named and opened "wb",
\* which creates it or truncates it.
OpenPlot(i) ==
  /\ InLoop(i)
  /\ "path" \in DOMAIN Files(i)[idx[i]]
  /\ EndsWith(Files(i)[idx[i]].path, PngSuffix)
  /\ LET path == get_unique_filename("", "plot_", ".png", now) IN
     /\ output_path' = [output_path EXCEPT ![i] = path]
     /\ temp' = (path :> <<>>) @@ temp
     /\ writes' = [writes EXCEPT ![i] =
                     Append(@, [path |-> path, entry |-> idx[i],
                                created |-> path \notin DOMAIN temp])]
  /\ pc' = [pc EXCEPT ![i] = "opened"]
  /\ UNCHANGED <<now, made, python_code, tmpdir, posts, post, result, idx,
                 response, returned, raised, returns>>

\* file["content"] of an entry without that key; the file stays as opened.
PlotNoContent(i) ==
  /\ pc[i] = "opened"
  /\ "content" \notin DOMAIN Files(i)[idx[i]]
  /\ Raise(i, ContentKeyError)
  /\ UNCHANGED <<now, made, temp, python_code, posts, post, result, idx,
                 output_path, response, writes>>

\* base64.b64decode raises binascii.Error; the file stays as opened.
PlotBadBase64(i) ==
  /\ pc[i] = "opened"
  /\ "content" \in DOMAIN Files(i)[idx[i]]
  /\ ~B64Decode(Files(i)[idx[i]].content).ok
  /\ Raise(i, PaddingError)
  /\ UNCHANGED <<now, made, temp, python_code, posts, post, result, idx,
                 output_path, response, writes>>

\* f.write fails (the disk is full); the file stays as opened.
PlotWriteFail(i) ==
  /\ pc[i] = "opened"
  /\ "content" \in DOMAIN Files(i)[idx[i]]
  /\ B64Decode(Files(i)[idx[i]].content).ok
  /\ Raise(i, PlotWriteError)
  /\ UNCHANGED <<now, made, temp, python_code, posts, post, result, idx,
                 output_path, response, writes>>

\* Lines 126-133: the decoded bytes are written and the plot fields set.
WritePlot(i) ==
  /\ pc[i] = "opened"
  /\ "content" \in DOMAIN Files(i)[idx[i]]
  /\ LET file == Files(i)[idx[i]]
         decoded == B64Decode(file.content)
     IN /\ decoded.ok
        /\ temp' = [temp EXCEPT ![output_path[i]] = WriteAtStart(@, decoded.bytes)]
        /\ response' = [response EXCEPT ![i] =
                          Update(@, PlotFields(file.content, output_path[i]))]
  /\ idx' = [idx EXCEPT ![i] = NextFileIndex(@, Len(Files(i)), TRUE)]
  /\ pc' = [pc EXCEPT ![i] = "loop"]
  /\ UNCHANGED <<now, made, python_code, tmpdir, posts, post, result,
                 output_path, returned, raised, writes, returns>>

\* Lines 135-142: the no-output case and `return response`.
Finish(i) ==
  /\ pc[i] = "loop"
  /\ idx[i] > Len(Files(i))
  /\ LET final == IF IsNoOutput(Stdout(i), Files(i))
                  THEN Update(response[i], NoneFields)
                  ELSE response[i]
     IN /\ response' = [response EXCEPT ![i] = final]
        /\ Return(i, final)
  /\ UNCHANGED <<now, made, temp, python_code, posts, post, result, idx,
                 output_path, writes>>

\* The transport hands the result to the caller; the slot takes the next call.
Collect(i) ==
  /\ pc[i] = "done"
  /\ pc' = [pc EXCEPT ![i] = "idle"]
  /\ python_code' = [python_code EXCEPT ![i] = ""]
  /\ posts' = [posts EXCEPT ![i] = 0]
  /\ post' = [post EXCEPT ![i] = "unsent"]
  /\ result' = [result EXCEPT ![i] = EmptyDict]
  /\ idx' = [idx EXCEPT ![i] = 0]
  /\ output_path' = [output_path EXCEPT ![i] = <<>>]
  /\ response' = [response EXCEPT ![i] = EmptyDict]
  /\ returned' = [returned EXCEPT ![i] = EmptyDict]
  /\ raised' = [raised EXCEPT ![i] = NoException]
  /\ writes' = [writes EXCEPT ![i] = <<>>]
  /\ returns' = [returns EXCEPT ![i] = 0]
  /\ UNCHANGED <<now, made, temp, tmpdir>>

\* The clock reaches the next second.
Tick ==
  /\ now < MaxClock
  /\ now' = now + 1
  /\ UNCHANGED <<made, temp, pc, python_code, tmpdir, posts, post, result, idx,
                 output_path, response, returned, raised, writes, returns>>

(* --------------------------- specifications --------------------------- *)
\* No call is in flight: the server runs the synchronous tool to its end
\* before it takes the next request.
NoneInFlight == \A j \in Calls : pc[j] = "idle"

\* One call at a time, as a single server process runs them.
Next ==
  \/ \E i \in Calls, code \in PythonCodes : NoneInFlight /\ Begin(i, code)
  \/ \E i \in Calls, code \in PythonCodes : NoneInFlight /\ MakedirsFail(i, code)
  \/ \E i \in Calls, code \in PythonCodes : NoneInFlight /\ WriteSourceFail(i, code)
  \/ \E i \in Calls : Post(i)
  \/ \E i \in Calls : PostFail(i)
  \/ \E i \in Calls : ParseFail(i)
  \/ \E i \in Calls : Respond(i, Responses)
  \/ \E i \in Calls : ScanNoPath(i)
  \/ \E i \in Calls : ScanSkip(i)
  \/ \E i \in Calls : OpenPlot(i)
  \/ \E i \in Calls : PlotNoContent(i)
  \/ \E i \in Calls : PlotBadBase64(i)
  \/ \E i \in Calls : PlotWriteFail(i)
  \/ \E i \in Calls : WritePlot(i)
  \/ \E i \in Calls : Finish(i)
  \/ \E i \in Calls : Collect(i)
  \/ Tick

Spec == Init /\ [][Next]_vars

\* Calls interleave at every step that touches TEMP_DIR: tools run on worker
\* threads, or several server processes share the checkout's temp directory.
NextConcurrent ==
  \/ \E i \in Calls, code \in PythonCodes : Begin(i, code)
  \/ \E i \in Calls, code \in PythonCodes : MakedirsFail(i, code)
  \/ \E i \in Calls, code \in PythonCodes : WriteSourceFail(i, code)
  \/ \E i \in Calls : Post(i)
  \/ \E i \in Calls : PostFail(i)
  \/ \E i \in Calls : ParseFail(i)
  \/ \E i \in Calls : Respond(i, ResponsesConcurrent)
  \/ \E i \in Calls : ScanNoPath(i)
  \/ \E i \in Calls : ScanSkip(i)
  \/ \E i \in Calls : OpenPlot(i)
  \/ \E i \in Calls : PlotNoContent(i)
  \/ \E i \in Calls : PlotBadBase64(i)
  \/ \E i \in Calls : PlotWriteFail(i)
  \/ \E i \in Calls : WritePlot(i)
  \/ \E i \in Calls : Finish(i)
  \/ Tick

SpecConcurrent == Init /\ [][NextConcurrent]_vars

(* ------------------------------ claims -------------------------------- *)
Done(i) == pc[i] = "done"

\* result[i] is the sandbox's parsed answer.
Parsed(i) == post[i] = "answered" /\ raised[i] # JsonError

IsSystemError(m) == "error_type" \in DOMAIN m /\ m.error_type = "system_error"

PngEntries(files) ==
  {k \in 1..Len(files) :
     "path" \in DOMAIN files[k] /\ EndsWith(files[k].path, PngSuffix)}

WrittenPaths(i) == {writes[i][k].path : k \in 1..Len(writes[i])}

CreatedPaths(i) == {writes[i][k].path : k \in {n \in 1..Len(writes[i]) : writes[i][n].created}}

\* C1: every returned mapping has one of the interface's shapes: a success
\* carries an output_type among text, plot, none and details; an error
\* carries an error_type among execution_error, system_error, an
\* error_message and details.
C1_ResultShape ==
  \A i \in Calls : Done(i) =>
    LET m == returned[i] IN
    /\ "status" \in DOMAIN m
    /\ m.status \in {"success", "error"}
    /\ m.status = "success" =>
         /\ {"output_type", "details"} \subseteq DOMAIN m
         /\ m.output_type \in {"text", "plot", "none"}
    /\ m.status = "error" =>
         /\ {"error_type", "error_message", "details"} \subseteq DOMAIN m
         /\ m.error_type \in {"execution_error", "system_error"}

\* C2: an answer with returncode # 0 is returned as exactly status error,
\* the returncode, error_type execution_error, error_message the trimmed
\* stdout and details, with no other field, and no plot file was opened.
C2_ExecutionError ==
  \A i \in Calls : (Done(i) /\ Parsed(i) /\ Returncode(i) # 0) =>
    /\ returned[i] =
         [status |-> "error",
          returncode |-> Returncode(i),
          error_type |-> "execution_error",
          error_message |-> Strip(Get(result[i], "stdout", <<>>)),
          details |-> "Code execution encountered syntax error or runtime error"]
    /\ DOMAIN returned[i] \cap {"output_type", "stdout", "plot_path", "plot_data"} = {}
    /\ writes[i] = <<>>

\* A call returned for an answer with returncode 7, a whitespace-only stdout
\* and a .png among its files.
C2_Witness ==
  \E i \in Calls :
    /\ Done(i) /\ Parsed(i) /\ Returncode(i) = 7
    /\ PngEntries(Files(i)) # {}
    /\ Get(result[i], "stdout", <<>>) # <<>> /\ Stdout(i) = <<>>
    /\ returned[i].error_message = <<>>

\* C3: no exception leaves the call, a call returns once, and a call in
\* which a step raised returns exactly status error, error_type system_error,
\* error_message the exception's description and details: nothing of what
\* was accumulated before the failure.
C3_SystemError ==
  \A i \in Calls :
    /\ pc[i] # "escaped"
    /\ returns[i] <= 1
    /\ Done(i) => returns[i] = 1
    /\ raised[i] # NoException =>
         /\ Done(i)
         /\ returned[i] =
              [status |-> "error",
               error_type |-> "system_error",
               error_message |-> raised[i].message,
               details |-> "System exception occurred during execution"]

\* A call failed on an undecodable entry after it had accumulated the
\* fields of an earlier plot.
C3_Witness ==
  \E i \in Calls :
    /\ Done(i)
    /\ raised[i] = PaddingError
    /\ {"returncode", "plot_path", "plot_data"} \subseteq DOMAIN response[i]
    /\ IsSystemError(returned[i])

\* C4: at the step in which a call returns a result with output_type plot,
\* the file at plot_path holds the base64-decoding of the result's plot_data,
\* however the calls interleave.
C4_RoundTrip ==
  [][\A i \in Calls :
       (/\ pc[i] # "done"
        /\ pc'[i] = "done"
        /\ "output_type" \in DOMAIN returned'[i]
        /\ returned'[i].output_type = "plot")
       => /\ returned'[i].plot_path \in DOMAIN temp'
          /\ temp'[returned'[i].plot_path] = B64Decode(returned'[i].plot_data).bytes]_vars

\* The decoded bytes of the .png entries of call i's answer.
PngBytes(i) ==
  {B64Decode(Files(i)[k].content).bytes :
     k \in {n \in PngEntries(Files(i)) : "content" \in DOMAIN Files(i)[n]}}

\* C5: two calls with different python_code whose answers hold different
\* .png bytes never open the same plot file, the same second or not.
C5_DistinctContentDistinctFile ==
  \A i, j \in Calls :
    (/\ i # j
     /\ Parsed(i) /\ Parsed(j)
     /\ python_code[i] # python_code[j]
     /\ PngBytes(i) \cap PngBytes(j) = {})
    => WrittenPaths(i) \cap WrittenPaths(j) = {}

\* C6: a call adds at most one file to the working directory, and its
\* temporary source file is gone once it has returned.
C6_AtMostOneFile ==
  \A i \in Calls :
    /\ Cardinality(CreatedPaths(i)) <= 1
    /\ Done(i) => tmpdir[i] = {}

\* C7 as stated: a call issues at most one POST, a failed request ends in a
\* system_error result without a second request, and no result is returned
\* before the POST has answered or failed.
C7_Original ==
  \A i \in Calls :
    /\ posts[i] <= 1
    /\ (Done(i) /\ post[i] = "failed") => (IsSystemError(returned[i]) /\ posts[i] = 1)
    /\ Done(i) => post[i] \in {"answered", "failed"}

\* C7 as amended: a call issues at most one POST and never retries; a failed
\* request or an unparseable body ends in a system_error result without a
\* second request; no result is returned while the POST is in flight, and a
\* result returned with no POST sent is the system_error of a step that
\* failed before the request.
C7_SinglePost ==
  \A i \in Calls :
    /\ posts[i] <= 1
    /\ (Done(i) /\ (post[i] = "failed" \/ raised[i] = JsonError))
         => (IsSystemError(returned[i]) /\ posts[i] = 1)
    /\ Done(i) =>
         \/ post[i] \in {"answered", "failed"} /\ posts[i] = 1
         \/ /\ post[i] = "unsent"
            /\ posts[i] = 0
            /\ raised[i] \in {MakedirsError, SourceWriteError}
            /\ IsSystemError(returned[i])

\* The single request of a call failed and the call returned a system_error.
C7_Witness ==
  \E i \in Calls :
    /\ Done(i)
    /\ post[i] = "failed"
    /\ posts[i] = 1
    /\ raised[i] = ConnectionError
    /\ IsSystemError(returned[i])

\* The result of a returncode-0 answer, by the precedence plot, text, none.
SuccessByPrecedence(i) ==
  LET m == returned[i]
      pngs == PngEntries(Files(i))
  IN /\ m.status = "success"
     /\ m.returncode = 0
     /\ "output_type" \in DOMAIN m \/ (pngs = {} /\ Stdout(i) = <<>> /\ Files(i) # <<>>)
     /\ pngs # {} => m.output_type = "plot"
     /\ (pngs = {} /\ Stdout(i) # <<>>) => m.output_type = "text"
     /\ (pngs = {} /\ Stdout(i) = <<>> /\ Files(i) = <<>>) => m.output_type = "none"
     /\ Stdout(i) # <<>> => ("stdout" \in DOMAIN m /\ m.stdout = Stdout(i))
     /\ Stdout(i) = <<>> => "stdout" \notin DOMAIN m

\* C8 as stated: every answer with returncode 0 is returned as a success
\* whose output_type follows the precedence (a failing disk, which is not of
\* the answer's doing, left aside).
C8_Original ==
  \A i \in Calls :
    (Done(i) /\ Parsed(i) /\ Returncode(i) = 0 /\ raised[i] # PlotWriteError)
    => SuccessByPrecedence(i)

\* C8 as amended: every answer with returncode 0 whose translation raises
\* no exception is returned as a success whose output_type follows the
\* precedence, the stdout attached whenever the trimmed stdout is non-empty.
C8_Precedence ==
  \A i \in Calls :
    (Done(i) /\ Parsed(i) /\ Returncode(i) = 0 /\ raised[i] = NoException)
    => SuccessByPrecedence(i)

\* A returncode-0 answer with a .png and a non-empty stdout was returned as
\* a plot that carries the stdout.
C8_Witness ==
  \E i \in Calls :
    /\ Done(i) /\ Parsed(i) /\ Returncode(i) = 0 /\ raised[i] = NoException
    /\ PngEntries(Files(i)) # {}
    /\ Stdout(i) # <<>>
    /\ returned[i].output_type = "plot"
    /\ returned[i].stdout = Stdout(i)

\* The greatest element of a non-empty set of numbers.
Last(S) == CHOOSE k \in S : \A n \in S : n <= k

C10_SystemErrorWritesNothing ==
  \A i \in Calls :
    (Done(i) /\ IsSystemError(returned[i])) => writes[i] = <<>>

=============================================================================
